---- MODULE Spec2Model ----
(***************************************************************************)
(* EZyRB: the RBF approximation (ezyrb/rbf.py) and the ReducedOrderModel   *)
(* orchestrator (ezyrb/reducedordermodel.py).                              *)
(*                                                                         *)
(* Arrays are sequences of rows, a row is a sequence of integers.          *)
(* Python's None is the empty sequence and a present value v is <<v>>.     *)
(* A positive real (num/den)^(1/root) is the record [num, den, root].      *)
(***************************************************************************)
EXTENDS Integers, Sequences, FiniteSets, TLC

VARIABLES approximation, database, reduction, calls, last, hist

vars == <<approximation, database, reduction, calls, last, hist>>

-----------------------------------------------------------------------------
(* Bounds of the model *)

MaxCoord == 1

-----------------------------------------------------------------------------
(* Values *)

None == <<>>
Some(v) == <<v>>

Eps(n, d, r) == [num |-> n, den |-> d, root |-> r]

One == Eps(1, 1, 1)

\* a = b as real numbers: (na/da)^(1/ra) = (nb/db)^(1/rb)
EpsEq(a, b) ==
    (a.num ^ b.root) * (b.den ^ a.root) = (b.num ^ a.root) * (a.den ^ b.root)

RECURSIVE Prod(_)
Prod(s) == IF s = <<>> THEN 1 ELSE Head(s) * Prod(Tail(s))

Max(S) == CHOOSE x \in S : \A y \in S : y <= x
Min(S) == CHOOSE x \in S : \A y \in S : x <= y

NoTranspose(m) == m

\* numpy .T of a two-dimensional array
Transpose(m) ==
    [j \in 1..Len(m[1]) |-> [i \in 1..Len(m) |-> m[i][j]]]

MulAll(m, k) == [i \in 1..Len(m) |-> [j \in 1..Len(m[i]) |-> m[i][j] * k]]

AddAll(m, k) == [i \in 1..Len(m) |-> [j \in 1..Len(m[i]) |-> m[i][j] + k]]

-----------------------------------------------------------------------------
(* RBF *)

RBF_init(kernel, smooth, neighbors, epsilon, degree) ==
    [kernel |-> kernel, smooth |-> smooth, neighbors |-> neighbors,
     degree |-> degree, epsilon |-> epsilon,
     interpolator |-> None, xi |-> None]

ForcedKernelsShort == {"thin_plate_spline", "cubic"}

ForcedKernels == {"thin_plate_spline", "cubic", "quintic"}

\* edges = ximax - ximin; edges = edges[np.nonzero(edges)]
Edges(xi) ==
    LET col(j) == {xi[i][j] : i \in 1..Len(xi)}
        all == [j \in 1..Len(xi[1]) |-> Max(col(j)) - Min(col(j))]
    IN  SelectSeq(all, LAMBDA e : e # 0)

DefaultEpsilonRows(xi) ==
    Eps(Prod(Edges(xi)), Len(xi), Len(Edges(xi)))

\* np.power(np.prod(edges)/N, 1.0/edges.size), N = xi.shape[-1]
DefaultEpsilon(xi) ==
    Eps(Prod(Edges(xi)), Len(xi[1]), Len(Edges(xi)))

RBFInterpolatorUnit(points, values, neighbors, smoothing, kernel, epsilon, degree) ==
    [points |-> points, values |-> values, neighbors |-> neighbors,
     smoothing |-> smoothing, kernel |-> kernel, epsilon |-> One,
     degree |-> degree]

\* the external solver: the object it builds keeps what it was given
RBFInterpolator(points, values, neighbors, smoothing, kernel, epsilon, degree) ==
    [points |-> points, values |-> values, neighbors |-> neighbors,
     smoothing |-> smoothing, kernel |-> kernel, epsilon |-> epsilon,
     degree |-> degree]

\* the external solver raises on a shape mismatch, and may raise otherwise
\* (singular system, too few points for the degree): fault
SolverRaises(points, values, fault) ==
    Len(values) # Len(points) \/ fault

\* fit(points, values): the object after the call, and whether it raised
RBF_fit(self, points, values, fault) ==
    LET s1 == [self EXCEPT !.xi = Some(points)]
    IN  IF self.epsilon = None /\ Len(Edges(points)) = 0
        THEN [self |-> s1, raised |-> TRUE]
        ELSE
          LET eps == IF self.epsilon = None
                     THEN IF s1.kernel \in ForcedKernels
                          THEN One
                          ELSE DefaultEpsilon(points)
                     ELSE self.epsilon[1]
              s2 == [s1 EXCEPT !.epsilon = Some(eps)]
          IN  IF SolverRaises(points, values, fault)
              THEN [self |-> s2, raised |-> TRUE]
              ELSE [self |-> [s2 EXCEPT !.interpolator =
                                 Some(RBFInterpolator(points, values,
                                      s2.neighbors, s2.smooth, s2.kernel,
                                      eps, s2.degree))],
                    raised |-> FALSE]

\* the fitted interpolator called on x: exact on a node when smoothing = 0,
\* elsewhere some value g of the solver's
InterpolatorCall(f, x, g) ==
    LET node(q) == {j \in 1..Len(f.points) : f.points[j] = x[q]}
    IN  [q \in 1..Len(x) |->
            IF f.smoothing = 0 /\ node(q) # {}
            THEN f.values[Min(node(q))]
            ELSE [c \in 1..Len(f.values[1]) |-> g]]

\* the interpolator raises on points of another dimension than the nodes'
CallRaises(f, x) ==
    \E q \in 1..Len(x) : Len(x[q]) # Len(f.points[1])

\* self.interpolator(np.asarray(new_point)) with the interpolator set
Evaluate(self, new_point, g) ==
    IF CallRaises(self.interpolator[1], new_point)
    THEN [self |-> self, raised |-> TRUE, ret |-> None]
    ELSE [self |-> self, raised |-> FALSE,
          ret |-> Some(InterpolatorCall(self.interpolator[1], new_point, g))]

RBF_predict_silent(self, new_point, g) ==
    IF self.interpolator = None
    THEN [self |-> self, raised |-> FALSE, ret |-> Some(new_point)]
    ELSE Evaluate(self, new_point, g)

RBF_predict_storing(self, new_point, g) ==
    IF self.interpolator = None
    THEN [self |-> self, raised |-> TRUE, ret |-> None]
    ELSE [Evaluate(self, new_point, g) EXCEPT !.self.xi = Some(new_point)]

\* predict(new_point): the object after the call, whether it raised, the
\* result; calling None raises
RBF_predict(self, new_point, g) ==
    IF self.interpolator = None
    THEN [self |-> self, raised |-> TRUE, ret |-> None]
    ELSE Evaluate(self, new_point, g)

-----------------------------------------------------------------------------
(* ReducedOrderModel and its collaborators *)

\* reduction.reduce / reduction.expand: expand(reduce(x)) = x
Reduce(red, x) == IF red.kind = "identity" THEN x ELSE AddAll(x, 1)
Expand(red, y) == IF red.kind = "identity" THEN y ELSE AddAll(y, -1)

\* database.scaler_snapshots.inverse
Inverse(scaler, x) == MulAll(x, scaler.factor)

Call(fn, args, raised, ret) ==
    [fn |-> fn, args |-> args, raised |-> raised, ret |-> ret]

\* ReducedOrderModel.fit(): the approximation after the call, the calls made
\* on the collaborators in order, and whether the call raised
ROM_fit(approx, db, red, reduceFault, fault) ==
    LET snapT == Transpose(db.snapshots)
    IN  IF reduceFault
        THEN [approximation |-> approx, raised |-> TRUE,
              calls |-> <<Call("reduction.reduce", <<snapT>>, TRUE, None)>>]
        ELSE
          LET reduced == Reduce(red, snapT)
              r == RBF_fit(approx, db.parameters, reduced, fault)
          IN  [approximation |-> r.self, raised |-> r.raised,
               calls |-> <<Call("reduction.reduce", <<snapT>>, FALSE,
                                Some(reduced)),
                           Call("approximation.fit",
                                <<db.parameters, reduced>>, r.raised, None)>>]

ROM_predict_swapped(approx, db, red, mu, g) ==
    LET shown == RBF_predict(approx, mu, g)
        c1 == Call("approximation.predict", <<mu>>, shown.raised, shown.ret)
    IN  IF shown.raised
        THEN [approximation |-> shown.self, raised |-> TRUE, ret |-> None,
              calls |-> <<c1>>]
        ELSE
          LET latent == RBF_predict(shown.self, mu, g)
              c2 == Call("approximation.predict", <<mu>>, latent.raised,
                         latent.ret)
              unscaled == Inverse(db.scaler_snapshots, latent.ret[1])
              c3 == Call("scaler_snapshots.inverse", <<latent.ret[1]>>,
                         FALSE, Some(unscaled))
              out == Expand(red, unscaled)
              c4 == Call("reduction.expand", <<unscaled>>, FALSE, Some(out))
          IN  [approximation |-> latent.self, raised |-> FALSE,
               ret |-> Some(out), calls |-> <<c1, c2, c3, c4>>]

\* ReducedOrderModel.predict(mu)
ROM_predict(approx, db, red, mu, g) ==
    LET shown == RBF_predict(approx, mu, g)
        c1 == Call("approximation.predict", <<mu>>, shown.raised, shown.ret)
    IN  IF shown.raised
        THEN [approximation |-> shown.self, raised |-> TRUE, ret |-> None,
              calls |-> <<c1>>]
        ELSE
          LET latent == RBF_predict(shown.self, mu, g)
              c2 == Call("approximation.predict", <<mu>>, latent.raised,
                         latent.ret)
              expanded == Expand(red, latent.ret[1])
              c3 == Call("reduction.expand", <<latent.ret[1]>>, FALSE,
                         Some(expanded))
              out == Inverse(db.scaler_snapshots, expanded)
              c4 == Call("scaler_snapshots.inverse", <<expanded>>, FALSE,
                         Some(out))
          IN  [approximation |-> latent.self, raised |-> FALSE,
               ret |-> Some(out), calls |-> <<c1, c2, c3, c4>>]

-----------------------------------------------------------------------------
(* Inputs *)

Coords == 0..MaxCoord

Grid1 == {<<a>> : a \in Coords}
Grid2 == {<<a, b>> : a \in Coords, b \in Coords}

UnitSquare == <<<<0, 0>>, <<1, 0>>, <<0, 1>>, <<1, 1>>>>

\* point sets: one point, two points spanning every box of the grid, four
PointSets ==
    {<<<<0, 0>>>>, UnitSquare} \cup {<<<<0, 0>>, q>> : q \in Grid2}

Iota(n) == [i \in 1..n |-> <<i>>]

\* values with one row per point, or with three rows (no point set has three)
ValueSets(points) == {Iota(Len(points)), Iota(3)}

Queries == {<<p>> : p \in Grid2}

ROMQueries == {<<p>> : p \in Grid1}

OffNode == {0, 1}

Kernels == {"thin_plate_spline", "cubic", "quintic", "gaussian"}

ParameterSets ==
    {<<<<0>>>>} \cup {<<<<0>>, q>> : q \in Grid1}

Bits == {0, 1}

SnapshotRows == {<<a>> : a \in Bits} \cup {<<a, b>> : a \in Bits, b \in Bits}

SnapshotSets ==
    {<<r>> : r \in SnapshotRows}
    \cup {<<r, s>> : r \in {x \in SnapshotRows : Len(x) = 1},
                     s \in {x \in SnapshotRows : Len(x) = 1}}
    \cup {<<r, s>> : r \in {x \in SnapshotRows : Len(x) = 2},
                     s \in {x \in SnapshotRows : Len(x) = 2}}

-----------------------------------------------------------------------------
(* History of the calls, kept beside the program's state *)

Hist0(epsilon) ==
    [ctorEpsilon |-> epsilon, fits |-> 0, lastFit |-> "none",
     allOk |-> TRUE, fitted |-> None]

HistAfterFit(h, points, values, raised) ==
    [h EXCEPT !.fits = IF h.fits < 2 THEN h.fits + 1 ELSE 2,
              !.lastFit = IF raised THEN "raised" ELSE "ok",
              !.allOk = h.allOk /\ ~raised,
              !.fitted = IF raised THEN h.fitted
                         ELSE Some([points |-> points, values |-> values])]

Outcome(op, args, raised, ret, g) ==
    [op |-> op, args |-> args, raised |-> raised, ret |-> ret, g |-> g]

NoDatabase ==
    [parameters |-> <<<<0>>>>, snapshots |-> <<<<0>>>>,
     scaler_snapshots |-> [factor |-> 1]]

-----------------------------------------------------------------------------
(* The RBF on its own *)

\* the defaults of __init__, and one setting of the pass-through parameters
Settings ==
    {[smooth |-> 0, neighbors |-> None, degree |-> None],
     [smooth |-> 1, neighbors |-> Some(2), degree |-> Some(1)]}

Init ==
    /\ \E kernel \in Kernels, epsilon \in {None, Some(Eps(2, 1, 1))},
          rest \in Settings :
          /\ approximation = RBF_init(kernel, rest.smooth, rest.neighbors,
                                      epsilon, rest.degree)
          /\ hist = Hist0(epsilon)
    /\ database = NoDatabase
    /\ reduction = [kind |-> "identity"]
    /\ calls = <<>>
    /\ last = Outcome("init", <<>>, FALSE, None, 0)

Fit ==
    \E points \in PointSets, fault \in BOOLEAN :
      \E values \in ValueSets(points) :
        LET r == RBF_fit(approximation, points, values, fault)
        IN  /\ approximation' = r.self
            /\ last' = Outcome("RBF.fit", <<points, values>>, r.raised,
                               None, 0)
            /\ hist' = HistAfterFit(hist, points, values, r.raised)
            /\ calls' = <<>>
            /\ UNCHANGED <<database, reduction>>

Predict ==
    \E new_point \in Queries \cup ROMQueries, g \in OffNode :
        LET r == RBF_predict(approximation, new_point, g)
        IN  /\ approximation' = r.self
            /\ last' = Outcome("RBF.predict", <<new_point>>, r.raised,
                               r.ret, g)
            /\ calls' = <<>>
            /\ UNCHANGED <<database, reduction, hist>>

Next == Fit \/ Predict

Spec == Init /\ [][Next]_vars

-----------------------------------------------------------------------------
(* The ReducedOrderModel holding an RBF *)

InitROM ==
    /\ \E kernel \in {"thin_plate_spline", "gaussian"}, rest \in Settings :
          approximation = RBF_init(kernel, rest.smooth, rest.neighbors,
                                   None, rest.degree)
    /\ hist = Hist0(None)
    /\ \E parameters \in ParameterSets, snapshots \in SnapshotSets,
          factor \in {1, 2} :
          database = [parameters |-> parameters, snapshots |-> snapshots,
                      scaler_snapshots |-> [factor |-> factor]]
    /\ \E kind \in {"identity", "shift"} : reduction = [kind |-> kind]
    /\ calls = <<>>
    /\ last = Outcome("init", <<>>, FALSE, None, 0)

ROMFit ==
    \E reduceFault \in BOOLEAN, fault \in BOOLEAN :
        LET r == ROM_fit(approximation, database, reduction, reduceFault,
                         fault)
        IN  /\ approximation' = r.approximation
            /\ calls' = r.calls
            /\ last' = Outcome("ROM.fit", <<>>, r.raised, None, 0)
            /\ hist' = IF Len(r.calls) = 2
                       THEN HistAfterFit(hist, r.calls[2].args[1],
                                         r.calls[2].args[2],
                                         r.calls[2].raised)
                       ELSE hist
            /\ UNCHANGED <<database, reduction>>

ROMPredict ==
    \E mu \in ROMQueries, g \in OffNode :
        LET r == ROM_predict(approximation, database, reduction, mu, g)
        IN  /\ approximation' = r.approximation
            /\ calls' = r.calls
            /\ last' = Outcome("ROM.predict", <<mu>>, r.raised, r.ret, g)
            /\ UNCHANGED <<database, reduction, hist>>

NextROM == ROMFit \/ ROMPredict \/ Predict

SpecROM == InitROM /\ [][NextROM]_vars

-----------------------------------------------------------------------------
(* Vocabulary of the properties *)

CountIn(cs, fn) == Cardinality({i \in 1..Len(cs) : cs[i].fn = fn})

Rank(fn) ==
    CASE fn = "approximation.predict" -> 1
      [] fn = "reduction.expand" -> 2
      [] fn = "scaler_snapshots.inverse" -> 3
      [] OTHER -> 0

IsTransposeOf(t, m) ==
    /\ Len(t) = Len(m[1])
    /\ \A j \in 1..Len(t) :
          /\ Len(t[j]) = Len(m)
          /\ \A i \in 1..Len(m) : t[j][i] = m[i][j]

\* the range max - min of column j of the points x
ColRange(x, j) ==
    LET vs == {x[i][j] : i \in 1..Len(x)}
    IN  (CHOOSE hi \in vs : \A v \in vs : v <= hi)
        - (CHOOSE lo \in vs : \A v \in vs : lo <= v)

NonzeroDims(x) == Cardinality({j \in 1..Len(x[1]) : ColRange(x, j) # 0})

RECURSIVE NonzeroProd(_, _)
NonzeroProd(x, j) ==
    IF j = 0 THEN 1
    ELSE (IF ColRange(x, j) = 0 THEN 1 ELSE ColRange(x, j))
         * NonzeroProd(x, j - 1)

\* (P / D)^(1/k) of the points x
HypercubeEpsilon(x) ==
    Eps(NonzeroProd(x, Len(x[1])), Len(x[1]), NonzeroDims(x))

IsForced(kernel) == kernel \in {"thin_plate_spline", "cubic", "quintic"}

Distinct(seq) == \A i, j \in 1..Len(seq) : i # j => seq[i] # seq[j]

-----------------------------------------------------------------------------
(* C1: every ReducedOrderModel.predict(mu) calls approximation.predict,    *)
(* then reduction.expand, then scaler_snapshots.inverse, never in another  *)
(* order; expand receives what approximation.predict(mu) returned, inverse *)
(* receives what expand returned, and predict returns what inverse         *)
(* returned.                                                               *)
PredictOrder ==
    last.op = "ROM.predict" =>
      /\ calls # <<>>
      /\ calls[1].fn = "approximation.predict"
      /\ \A i, j \in 1..Len(calls) :
            i < j => Rank(calls[i].fn) <= Rank(calls[j].fn)
      /\ \A i \in 1..Len(calls) :
            calls[i].fn = "approximation.predict" => calls[i].args = last.args
      /\ ~last.raised =>
            \E a, e, v \in 1..Len(calls) :
               /\ a < e /\ e < v
               /\ calls[a].fn = "approximation.predict"
               /\ calls[e].fn = "reduction.expand"
               /\ calls[v].fn = "scaler_snapshots.inverse"
               /\ ~calls[a].raised
               /\ calls[e].args = <<calls[a].ret[1]>>
               /\ calls[v].args = <<calls[e].ret[1]>>
               /\ last.ret = calls[v].ret

PredictOrderWitness ==
    /\ last.op = "ROM.predict"
    /\ ~last.raised
    /\ reduction.kind = "shift"
    /\ database.scaler_snapshots.factor = 2
    /\ CountIn(calls, "scaler_snapshots.inverse") = 1

(* C2: every ReducedOrderModel.fit() calls reduction.reduce once, with the *)
(* transpose of database.snapshots, then approximation.fit once, with      *)
(* database.parameters and the value reduce returned; when reduce raises,  *)
(* approximation.fit is not called and the approximation is unchanged.     *)
FitDelegation ==
    [][last'.op = "ROM.fit" =>
         /\ CountIn(calls', "reduction.reduce") = 1
         /\ calls'[1].fn = "reduction.reduce"
         /\ Len(calls'[1].args) = 1
         /\ IsTransposeOf(calls'[1].args[1], database.snapshots)
         /\ calls'[1].raised =>
               /\ Len(calls') = 1
               /\ last'.raised
               /\ approximation' = approximation
         /\ ~calls'[1].raised =>
               /\ Len(calls') = 2
               /\ calls'[2].fn = "approximation.fit"
               /\ calls'[2].args = <<database.parameters, calls'[1].ret[1]>>
               /\ last'.raised = calls'[2].raised]_vars

FitDelegationWitness ==
    /\ last.op = "ROM.fit"
    /\ ~last.raised
    /\ Len(calls) = 2
    /\ Len(database.snapshots) = 2
    /\ Len(database.snapshots[1]) = 2
    /\ database.snapshots[1][2] # database.snapshots[2][1]
    /\ reduction.kind = "shift"

(* C3: with a reduction such that expand(reduce(x)) = x, an approximation  *)
(* exact at its nodes and N parameters paired with N snapshots, fit()      *)
(* followed by predict(parameters[i]) returns the i-th snapshot of the     *)
(* database (stated here for a scaler whose inverse is the identity).      *)
RoundTrip ==
    ( /\ last.op = "ROM.predict"
      /\ hist.lastFit = "ok"
      /\ approximation.smooth = 0
      /\ Len(database.parameters) = Len(database.snapshots)
      /\ Distinct(database.parameters)
      /\ database.scaler_snapshots.factor = 1 )
    => \A i \in 1..Len(database.parameters) :
          last.args = <<<<database.parameters[i]>>>> =>
             /\ ~last.raised
             /\ last.ret = Some(<<database.snapshots[i]>>)

UnfitPredictRaises ==
    (hist.fitted = None /\ last.op \in {"RBF.predict", "ROM.predict"}) =>
       /\ last.raised
       /\ last.ret = None
       /\ \A i \in 1..Len(calls) :
             calls[i].fn = "approximation.predict" /\ calls[i].raised

UnfitPredictWitness ==
    /\ hist.fitted = None
    /\ hist.lastFit = "raised"
    /\ last.op = "ROM.predict"
    /\ last.raised
    /\ Len(calls) = 1

PredictPure ==
    [][last'.op = "RBF.predict" =>
         /\ approximation' = approximation
         /\ ~last'.raised =>
               /\ hist.fitted # None
               /\ Len(last'.ret[1]) = Len(last'.args[1])
               /\ \A q \in 1..Len(last'.args[1]) :
                     LET at == {j \in 1..Len(hist.fitted[1].points) :
                                  hist.fitted[1].points[j] = last'.args[1][q]}
                     IN  (approximation.smooth = 0 /\ at # {}) =>
                            \E j \in at :
                               last'.ret[1][q] = hist.fitted[1].values[j]]_vars

PredictPureWitness ==
    /\ last.op = "RBF.predict"
    /\ ~last.raised
    /\ hist.lastFit = "raised"
    /\ approximation.xi # Some(approximation.interpolator[1].points)
    /\ last.ret = Some(<<<<2>>>>)

(* C8: with epsilon unset at construction and a kernel outside             *)
(* {thin_plate_spline, cubic, quintic}, after successful fits only,        *)
(* epsilon and the epsilon given to the solver are the default computed    *)
(* from the points of the most recent fit (stated here for points with a   *)
(* dimension of nonzero range, where that default is defined).             *)
EpsilonFollowsLastFit ==
    ( /\ hist.ctorEpsilon = None
      /\ ~IsForced(approximation.kernel)
      /\ hist.allOk
      /\ hist.fits >= 1
      /\ NonzeroDims(approximation.xi[1]) >= 1 )
    => /\ EpsEq(approximation.epsilon[1],
                HypercubeEpsilon(approximation.xi[1]))
       /\ EpsEq(approximation.interpolator[1].epsilon,
                HypercubeEpsilon(approximation.xi[1]))

(* C9: a ReducedOrderModel.predict(mu) that returns has called             *)
(* approximation.predict, reduction.expand and scaler_snapshots.inverse    *)
(* once each.                                                              *)
PredictCallsOnce ==
    (last.op = "ROM.predict" /\ ~last.raised) =>
       /\ CountIn(calls, "approximation.predict") = 1
       /\ CountIn(calls, "reduction.expand") = 1
       /\ CountIn(calls, "scaler_snapshots.inverse") = 1

(* C10, as stated: the interpolator is set exactly when xi is set, it was  *)
(* built from the points in xi and the current epsilon, and a fit that     *)
(* raises leaves xi, epsilon and the interpolator as they were.            *)
FitAtomic ==
    [][last'.op = "RBF.fit" =>
         /\ (approximation'.interpolator # None) <=> (approximation'.xi # None)
         /\ approximation'.interpolator # None =>
               /\ approximation'.interpolator[1].points = approximation'.xi[1]
               /\ approximation'.interpolator[1].epsilon
                     = approximation'.epsilon[1]
         /\ last'.raised =>
               /\ approximation'.xi = approximation.xi
               /\ approximation'.epsilon = approximation.epsilon
               /\ approximation'.interpolator = approximation.interpolator]_vars

(* C10, amended: the interpolator is set only if xi is set; when set it    *)
(* was built with the current epsilon and from the points and values of    *)
(* the most recent successful fit, which are the points in xi when the     *)
(* last fit succeeded; every fit, raising or not, stores its points in xi; *)
(* a fit that raises leaves the interpolator as it was; epsilon, once set, *)
(* never changes.                                                          *)
FitConsistent ==
    [][last'.op = "RBF.fit" =>
         /\ approximation'.xi = Some(last'.args[1])
         /\ approximation'.interpolator # None =>
               /\ approximation'.xi # None
               /\ approximation'.epsilon # None
               /\ approximation'.interpolator[1].epsilon
                     = approximation'.epsilon[1]
         /\ approximation.epsilon # None =>
               approximation'.epsilon = approximation.epsilon
         /\ last'.raised =>
               approximation'.interpolator = approximation.interpolator
         /\ ~last'.raised =>
               /\ approximation'.interpolator # None
               /\ approximation'.interpolator[1].points = approximation'.xi[1]
               /\ approximation'.interpolator[1].values = last'.args[2]]_vars

FitConsistentWitness ==
    /\ last.op = "RBF.fit"
    /\ last.raised
    /\ approximation.interpolator # None
    /\ approximation.xi # Some(approximation.interpolator[1].points)
    /\ hist.ctorEpsilon # None

====
